---- MODULE Spec2Model ----
(***************************************************************************)
(* create-new-app: the command-line project generator.                     *)
(*                                                                         *)
(* One run of the program is modelled: letsGo() probes connectivity, then  *)
(* resolves the options either from the command line (parseArgs followed   *)
(* by processUsersCommand) or from the wizard (guidedProcess), and then    *)
(* creates the sandbox project or the project directory, its files and     *)
(* installs the dependencies.                                              *)
(*                                                                         *)
(* The program modelled is the complete entry point (the one whose port    *)
(* defaults are 8080 / 3000 and whose letsGo runs all five steps).         *)
(***************************************************************************)
EXTENDS Integers, Sequences, FiniteSets, TLC

(***************************************************************************)
(* Bounds of the model.                                                    *)
(***************************************************************************)
\* At most this many of the modelled flags are given on one command line.
MaxFlags == 3

(***************************************************************************)
(* Input domains.                                                          *)
(***************************************************************************)
\* The JavaScript value `undefined` (an option that was not given).  A
\* template literal renders it as the text "undefined".
Undefined == "undefined"

\* Application names: one that validate-npm-package-name accepts for new
\* packages and one that it rejects (it contains a capital letter).
AppNames == {"myapp", "myApp"}

\* A port flag that is not on the command line.
Absent == "absent"

\* Raw texts given to --devServerPort / --apiPort.
RawPorts == {"abc", "1.5", "0", "3000", "65535", "65536"}

BoolFlags == {"version", "help", "redux", "router", "offline", "force",
              "sandbox", "express", "mongo"}

(***************************************************************************)
(* portValidator and the option definitions.                               *)
(***************************************************************************)
DefaultDevServerPort == 8080
DefaultApiPort == 3000
MinPort == 1
MaxPort == 65535

\* JavaScript's unary plus on the raw text, together with Number.isInteger
\* of the result: NaN and fractions are not integers.
ToNumber(val) ==
    CASE val = "abc"   -> [isInteger |-> FALSE, n |-> 0]
      [] val = "1.5"   -> [isInteger |-> FALSE, n |-> 1]
      [] val = "0"     -> [isInteger |-> TRUE,  n |-> 0]
      [] val = "3000"  -> [isInteger |-> TRUE,  n |-> 3000]
      [] val = "65535" -> [isInteger |-> TRUE,  n |-> 65535]
      [] val = "65536" -> [isInteger |-> TRUE,  n |-> 65536]

\* portValidator without the upper end of the range.
portValidator_noUpperBound(val, type, defaultPort) ==
    LET num == ToNumber(val) IN
    IF ~num.isInteger
      THEN [port |-> defaultPort, warned |-> TRUE]
      ELSE IF num.n < MinPort
             THEN [port |-> defaultPort, warned |-> TRUE]
             ELSE [port |-> num.n, warned |-> FALSE]

\* portValidator(val, type, defaultPort): the port it returns and whether it
\* printed a warning.
portValidator(val, type, defaultPort) ==
    LET num == ToNumber(val) IN
    IF ~num.isInteger
      THEN [port |-> defaultPort, warned |-> TRUE]
      ELSE IF num.n < MinPort \/ num.n > MaxPort
             THEN [port |-> defaultPort, warned |-> TRUE]
             ELSE [port |-> num.n, warned |-> FALSE]

\* The type converters of the two port options; an option that is not given
\* takes its defaultValue without the converter being called.
devServerPortOption(raw) ==
    IF raw = Absent
      THEN [port |-> DefaultDevServerPort, warned |-> FALSE]
      ELSE portValidator(raw, "dev", DefaultDevServerPort)

apiPortOption(raw) ==
    IF raw = Absent
      THEN [port |-> DefaultApiPort, warned |-> FALSE]
      ELSE portValidator(raw, "api", DefaultApiPort)

\* What the converters print while command-line-args parses the arguments.
portWarnings(a) ==
    (IF devServerPortOption(a.devServerPort).warned
       THEN <<"portWarning:devServerPort">> ELSE <<>>)
    \o (IF apiPortOption(a.apiPort).warned
          THEN <<"portWarning:apiPort">> ELSE <<>>)

\* cla(optionDefinitions, { partial: true }).  express and mongo have no
\* defaultValue: when not given they are undefined, which is falsy and is
\* modelled as FALSE.
cla(a) ==
    [appName       |-> a.appName,
     version       |-> a.version,
     help          |-> a.help,
     redux         |-> a.redux,
     router        |-> a.router,
     offline       |-> a.offline,
     force         |-> a.force,
     sandbox       |-> a.sandbox,
     express       |-> a.express,
     mongo         |-> a.mongo,
     devServerPort |-> devServerPortOption(a.devServerPort).port,
     apiPort       |-> apiPortOption(a.apiPort).port]

(***************************************************************************)
(* Helpers of the entry point.                                             *)
(***************************************************************************)
\* validateName(appName).validForNewPackages of validate-npm-package-name:
\* undefined is rejected, and so is a name with a capital letter.
validForNewPackages(appName) == appName = "myapp"

\* `${cwd}/${appName}`
appDirOf(appName) == <<"cwd", appName>>

\* modules/checkDirExists: true when the directory is not there yet.
checkDirExists(appDir, ds) == appDir \notin ds

\* modules/showVersion, modules/showHelp, modules/badName: each prints its
\* text and returns nothing, so the `|| process.exit()` after the call runs.
showVersion == <<"showVersion">>
showHelp == <<"showHelp">>
badName == <<"badName">>

\* The options of the wizard that come from the defaultValues of
\* optionDefinitions.
defaultOptions ==
    [redux         |-> FALSE,
     router        |-> FALSE,
     offline       |-> FALSE,
     force         |-> FALSE,
     sandbox       |-> FALSE,
     devServerPort |-> DefaultDevServerPort,
     apiPort       |-> DefaultApiPort]

NoOptions == [none |-> TRUE]

\* The wizard's answers before any question is asked.
NoAnswers ==
    [appName |-> Undefined, redux |-> FALSE, router |-> FALSE,
     express |-> FALSE, mongo |-> FALSE]

(***************************************************************************)
(* State.                                                                  *)
(***************************************************************************)
VARIABLES
    noArguments,  \* process.argv.length === 2
    argv,         \* the command line, as the flags given
    online,       \* the answer of isOnline()
    dirs,         \* the directories that exist under cwd
    pc,           \* where the run is
    parsed,       \* what command-line-args returned
    options,      \* the resolved options
    answers,      \* the answers the wizard has so far
    log,          \* what was printed and done, in order
    files,        \* the files written into the project directory
    envText       \* the text of .env

vars == <<noArguments, argv, online, dirs, pc, parsed, options, answers, log, files, envText>>

NoArgv ==
    [appName |-> Undefined, version |-> FALSE, help |-> FALSE, redux |-> FALSE,
     router |-> FALSE, offline |-> FALSE, force |-> FALSE, sandbox |-> FALSE,
     express |-> FALSE, mongo |-> FALSE,
     devServerPort |-> Absent, apiPort |-> Absent]

Argvs ==
    [appName : AppNames \cup {Undefined},
     version : BOOLEAN, help : BOOLEAN, redux : BOOLEAN, router : BOOLEAN,
     offline : BOOLEAN, force : BOOLEAN, sandbox : BOOLEAN,
     express : BOOLEAN, mongo : BOOLEAN,
     devServerPort : RawPorts \cup {Absent},
     apiPort : RawPorts \cup {Absent}]

\* How many of the modelled flags a command line gives.
NumFlags(a) ==
    Cardinality({f \in BoolFlags : a[f]})
    + (IF a.devServerPort = Absent THEN 0 ELSE 1)
    + (IF a.apiPort = Absent THEN 0 ELSE 1)

\* The directories that may be there before the run.
InitialDirs == {{}} \cup {{appDirOf(n)} : n \in AppNames \cup {Undefined}}

Init ==
    /\ noArguments \in BOOLEAN
    /\ argv \in Argvs
    /\ noArguments => argv = NoArgv
    /\ NumFlags(argv) <= MaxFlags
    /\ online \in BOOLEAN
    /\ dirs \in InitialDirs
    /\ pc = "letsGo"
    /\ parsed = NoOptions
    /\ options = NoOptions
    /\ answers = NoAnswers
    /\ log = <<>>
    /\ files = <<>>
    /\ envText = <<>>

(***************************************************************************)
(* letsGo, STEP 1: const online = await isOnline()                         *)
(***************************************************************************)
IsOnline ==
    /\ pc = "letsGo"
    /\ pc' = IF noArguments THEN "guidedProcess" ELSE "parseArgs"
    /\ UNCHANGED <<noArguments, argv, online, dirs, parsed, options, answers, log, files, envText>>

(***************************************************************************)
(* parseArgs(online)                                                       *)
(***************************************************************************)
\* parseArgs that takes offline from the command line alone.
parseArgsOptions_offlineFlagOnly(o, isOn) ==
    [appName       |-> o.appName,
     version       |-> o.version,
     help          |-> o.help,
     redux         |-> o.redux,
     router        |-> o.router,
     offline       |-> o.offline,
     force         |-> o.force,
     sandbox       |-> o.sandbox,
     express       |-> o.express,
     mongo         |-> o.mongo,
     devServerPort |-> o.devServerPort,
     apiPort       |-> o.apiPort,
     online        |-> isOn,
     server        |-> (o.express \/ o.mongo),
     appDir        |-> appDirOf(o.appName)]

\* The options parseArgs builds from what command-line-args returned.
parseArgsOptions(o, isOn) ==
    [appName       |-> o.appName,
     version       |-> o.version,
     help          |-> o.help,
     redux         |-> o.redux,
     router        |-> o.router,
     offline       |-> (~isOn \/ o.offline),
     force         |-> o.force,
     sandbox       |-> o.sandbox,
     express       |-> o.express,
     mongo         |-> o.mongo,
     devServerPort |-> o.devServerPort,
     apiPort       |-> o.apiPort,
     online        |-> isOn,
     server        |-> (o.express \/ o.mongo),
     appDir        |-> appDirOf(o.appName)]

\* parseArgs that checks the directory before it looks at --version / --help.
parseArgsOutcome_checkDirFirst(o, ds) ==
    IF ~checkDirExists(o.appDir, ds)
      THEN [events |-> <<"checkDirExists", "process.exit">>, returns |-> FALSE]
    ELSE IF o.version
      THEN [events |-> <<"checkDirExists">> \o showVersion \o <<"process.exit">>,
            returns |-> FALSE]
    ELSE IF o.help
      THEN [events |-> <<"checkDirExists">> \o showHelp \o <<"process.exit">>,
            returns |-> FALSE]
    ELSE IF o.sandbox
      THEN [events |-> <<"checkDirExists">>, returns |-> TRUE]
    ELSE IF ~validForNewPackages(o.appName)
      THEN [events |-> <<"checkDirExists">> \o badName \o <<"process.exit">>,
            returns |-> FALSE]
    ELSE [events |-> <<"checkDirExists">>, returns |-> TRUE]

\* parseArgs that tests the name before it returns for --sandbox.
parseArgsOutcome_validateFirst(o, ds) ==
    IF o.version
      THEN [events |-> showVersion \o <<"process.exit">>, returns |-> FALSE]
    ELSE IF o.help
      THEN [events |-> showHelp \o <<"process.exit">>, returns |-> FALSE]
    ELSE IF ~checkDirExists(o.appDir, ds)
      THEN [events |-> <<"checkDirExists", "process.exit">>, returns |-> FALSE]
    ELSE IF ~validForNewPackages(o.appName)
      THEN [events |-> <<"checkDirExists">> \o badName \o <<"process.exit">>,
            returns |-> FALSE]
    ELSE [events |-> <<"checkDirExists">>, returns |-> TRUE]

\* What parseArgs does after the options are built: the events it causes
\* and whether it returns the options (otherwise the process exits).
parseArgsOutcome(o, ds) ==
    IF o.version
      THEN [events |-> showVersion \o <<"process.exit">>, returns |-> FALSE]
    ELSE IF o.help
      THEN [events |-> showHelp \o <<"process.exit">>, returns |-> FALSE]
    ELSE IF ~checkDirExists(o.appDir, ds)
      THEN [events |-> <<"checkDirExists", "process.exit">>, returns |-> FALSE]
    ELSE IF o.sandbox
      THEN [events |-> <<"checkDirExists">>, returns |-> TRUE]
    ELSE IF ~validForNewPackages(o.appName)
      THEN [events |-> <<"checkDirExists">> \o badName \o <<"process.exit">>,
            returns |-> FALSE]
    ELSE [events |-> <<"checkDirExists">>, returns |-> TRUE]

ParseArgs ==
    /\ pc = "parseArgs"
    /\ LET o   == parseArgsOptions(cla(argv), online)
           out == parseArgsOutcome(o, dirs)
       IN /\ parsed' = cla(argv)
          /\ log' = log \o portWarnings(argv) \o out.events
          /\ options' = IF out.returns THEN o ELSE options
          /\ pc' = IF out.returns THEN "processUsersCommand" ELSE "exit"
    /\ UNCHANGED <<noArguments, argv, online, dirs, answers, files, envText>>

(***************************************************************************)
(* processUsersCommand(options)                                            *)
(***************************************************************************)
processUsersCommandEvents(o) ==
    IF ~o.sandbox /\ (o.offline \/ ~o.online)
      THEN (IF ~o.online THEN <<"appearOffline">> ELSE <<>>) \o <<"viaLocalCache">>
      ELSE <<>>

\* processUsersCommand that looks at express only.
processUsersCommand_expressOnly(o) ==
    IF o.express /\ o.devServerPort = o.apiPort
      THEN [o EXCEPT !.devServerPort = o.devServerPort + 1]
      ELSE o

\* The apiPort takes precedence over the devServerPort.
processUsersCommand(o) ==
    IF (o.express \/ o.mongo) /\ o.devServerPort = o.apiPort
      THEN [o EXCEPT !.devServerPort = o.devServerPort + 1]
      ELSE o

ProcessUsersCommand ==
    /\ pc = "processUsersCommand"
    /\ log' = log \o processUsersCommandEvents(options)
    /\ options' = processUsersCommand(options)
    /\ pc' = "step3"
    /\ UNCHANGED <<noArguments, argv, online, dirs, parsed, answers, files, envText>>

(***************************************************************************)
(* guidedProcess(online): one action per prompt, each with the code that   *)
(* runs until the next prompt.                                             *)
(***************************************************************************)
guidedProcessOptions(ans, isOn) ==
    [appName       |-> ans.appName,
     version       |-> FALSE,
     help          |-> FALSE,
     redux         |-> ans.redux,
     router        |-> ans.router,
     offline       |-> ~isOn,
     force         |-> defaultOptions.force,
     sandbox       |-> defaultOptions.sandbox,
     express       |-> ans.express,
     mongo         |-> ans.mongo,
     devServerPort |-> defaultOptions.devServerPort,
     apiPort       |-> defaultOptions.apiPort,
     online        |-> isOn,
     server        |-> (ans.express \/ ans.mongo),
     appDir        |-> appDirOf(ans.appName)]

\* The first prompt without the directory and name checks after it.
PromptAppName_noChecks ==
    /\ pc = "guidedProcess"
    /\ \E name \in AppNames : answers' = [answers EXCEPT !.appName = name]
    /\ log' = log \o <<"ask:appName">>
    /\ pc' = "askRedux"
    /\ UNCHANGED <<noArguments, argv, online, dirs, parsed, options, files, envText>>

\* promptQ('Enter a name for your app:'), then the directory and name checks.
PromptAppName ==
    /\ pc = "guidedProcess"
    /\ \E name \in AppNames :
         /\ answers' = [answers EXCEPT !.appName = name]
         /\ IF ~checkDirExists(appDirOf(name), dirs)
              THEN /\ log' = log \o <<"ask:appName", "checkDirExists", "process.exit">>
                   /\ pc' = "exit"
              ELSE IF ~validForNewPackages(name)
                THEN /\ log' = log \o <<"ask:appName", "checkDirExists">>
                                   \o badName \o <<"process.exit">>
                     /\ pc' = "exit"
                ELSE /\ log' = log \o <<"ask:appName", "checkDirExists">>
                     /\ pc' = "askRedux"
    /\ UNCHANGED <<noArguments, argv, online, dirs, parsed, options, files, envText>>

\* const redux = await promptYN(...); router = redux && await promptYN(...)
PromptRedux ==
    /\ pc = "askRedux"
    /\ \E yes \in BOOLEAN :
         /\ answers' = [answers EXCEPT !.redux = yes, !.router = FALSE]
         /\ pc' = IF yes THEN "askRouter" ELSE "askExpress"
    /\ log' = Append(log, "ask:redux")
    /\ UNCHANGED <<noArguments, argv, online, dirs, parsed, options, files, envText>>

PromptRouter ==
    /\ pc = "askRouter"
    /\ \E yes \in BOOLEAN : answers' = [answers EXCEPT !.router = yes]
    /\ pc' = "askExpress"
    /\ log' = Append(log, "ask:router")
    /\ UNCHANGED <<noArguments, argv, online, dirs, parsed, options, files, envText>>

\* const express = await promptYN(...); mongo = express && await promptYN(...)
PromptExpress ==
    /\ pc = "askExpress"
    /\ \E yes \in BOOLEAN :
         /\ answers' = [answers EXCEPT !.express = yes, !.mongo = FALSE]
         /\ pc' = IF yes THEN "askMongo" ELSE "step3"
         /\ options' = IF yes THEN options
                       ELSE guidedProcessOptions(answers', online)
    /\ log' = Append(log, "ask:express")
    /\ UNCHANGED <<noArguments, argv, online, dirs, parsed, files, envText>>

PromptMongo ==
    /\ pc = "askMongo"
    /\ \E yes \in BOOLEAN :
         /\ answers' = [answers EXCEPT !.mongo = yes]
         /\ options' = guidedProcessOptions(answers', online)
    /\ pc' = "step3"
    /\ log' = Append(log, "ask:mongo")
    /\ UNCHANGED <<noArguments, argv, online, dirs, parsed, files, envText>>

(***************************************************************************)
(* STEP 3: createProjectDirectory(options) and createSandbox(options)      *)
(***************************************************************************)
\* createProjectDirectory: "exit" when the directory check ends the process,
\* "throw" when fs.mkdirSync finds the directory there, "ok" otherwise.
createProjectDirectory(o, ds) ==
    IF ~(checkDirExists(o.appDir, ds) \/ (~o.sandbox /\ o.force))
      THEN [result |-> "exit", dirs |-> ds,
            events |-> <<"checkDirExists", "process.exit">>]
    ELSE IF o.appDir \in ds
      THEN [result |-> "throw", dirs |-> ds,
            events |-> <<"checkDirExists", "creatingMsg", "mkdirThrows">>]
    ELSE [result |-> "ok", dirs |-> ds \cup {o.appDir},
          events |-> <<"checkDirExists", "creatingMsg", "mkdir">>]

pcAfter(result, next) ==
    CASE result = "exit"  -> "exit"
      [] result = "throw" -> "crashed"
      [] result = "ok"    -> next

\* letsGo without the sandbox branch.
step3_noSandboxBranch(o) == "createProjectDirectory"

\* letsGo: if (options.sandbox) return createSandbox(options)
step3(o) == IF o.sandbox THEN "createSandbox" ELSE "createProjectDirectory"

CreateProjectDirectory ==
    /\ pc = "step3"
    /\ step3(options) = "createProjectDirectory"
    /\ LET r == createProjectDirectory(options, dirs)
       IN /\ dirs' = r.dirs
          /\ log' = log \o r.events
          /\ pc' = pcAfter(r.result, "createFiles")
    /\ UNCHANGED <<noArguments, argv, online, parsed, options, answers, files, envText>>

\* The sandbox template tree, copied as a whole.
sandboxFiles == [p \in {"."} |-> "files/sandbox"]

CreateSandbox ==
    /\ pc = "step3"
    /\ step3(options) = "createSandbox"
    /\ IF options.appName = Undefined
         THEN /\ log' = log \o <<"forgotProjectName">>
              /\ pc' = "done"
              /\ UNCHANGED <<dirs, files>>
         ELSE LET r == createProjectDirectory(options, dirs)
              IN /\ dirs' = r.dirs
                 /\ pc' = pcAfter(r.result, "done")
                 /\ log' = log \o r.events
                             \o (IF r.result = "ok" THEN <<"copySandbox">> ELSE <<>>)
                 /\ files' = IF r.result = "ok" THEN sandboxFiles ELSE files
    /\ UNCHANGED <<noArguments, argv, online, parsed, options, answers, envText>>

(***************************************************************************)
(* STEP 4: createFiles(options)                                            *)
(***************************************************************************)
\* A property read off the options object: undefined when the object has no
\* property of that name.
prop(o, name) == IF name \in DOMAIN o THEN ToString(o[name]) ELSE Undefined

\* file-creators/dotEnv: the lines of .env, as <<key, value>>.
dotEnv(o) ==
    LET name     == <<"appName", o.appName>>
        contents ==
            << <<"PORT", prop(o, "apiport")>> >>
            \o (IF o.mongo THEN << <<"mongoURI", o.appName>> >> ELSE <<>>)
            \o (IF o.mongo THEN << <<"mongoSession", o.appName>> >> ELSE <<>>)
            \o (IF o.mongo THEN << <<"secret", "uuid">> >> ELSE <<>>)
            \o << name >>
    IN IF o.server THEN contents ELSE << name >>

\* The files createFiles leaves in the project directory, by path, each with
\* the template it was copied from or the renderer that wrote it.  A copied
\* tree is one entry; a later write to the same path replaces the earlier.

\* The unconditional writes and the dist and src trees.
createFilesAlways ==
    (".env" :> "dotEnv") @@ (".gitignore" :> "files/gitignore.txt")
    @@ ("package.json" :> "packageJson")
    @@ ("postcss.config.js" :> "files/postcss.config.js")
    @@ ("README.md" :> "files/README.md")
    @@ ("webpack.config.js" :> "webpackConfig")
    @@ ("dist" :> "files/dist") @@ ("src" :> "files/src")

\* server.js chosen by express alone.
createFilesServer_expressOnly(o) ==
    IF o.express
      THEN "server.js" :> (IF o.mongo THEN "files/server-mongo.js"
                                      ELSE "files/server.js")
      ELSE <<>>

\* `server.js` (with or without MongoDB options)
createFilesServer(o) ==
    IF o.server
      THEN "server.js" :> (IF o.mongo THEN "files/server-mongo.js"
                                      ELSE "files/server.js")
      ELSE <<>>

\* `api` directory tree.
createFilesApi(o) ==
    IF o.mongo THEN "api" :> "files/api"
    ELSE IF o.express THEN "api/home.js" :> "files/api/home.js"
    ELSE <<>>

\* The redux files written when redux alone is looked at.
createFilesRedux_reduxOnly(o) ==
    IF o.redux
      THEN ("src/entry.js" :> "files/redux/entry.js")
           @@ ("src/utils" :> "files/redux/utils")
           @@ (IF o.router
                 THEN ("src/components/App.jsx" :> "files/redux/Redux1stApp.jsx")
                      @@ ("src/components/Example.jsx" :> "files/redux/Redux1stExample.jsx")
                      @@ ("src/components/NotFound.jsx" :> "files/redux/NotFound.jsx")
                      @@ ("src/store.js" :> "files/redux/routerStore.js")
                      @@ ("src/routesMap.js" :> "files/redux/routesMap.js")
                 ELSE ("src/components/App.jsx" :> "files/redux/ReduxApp.jsx")
                      @@ ("src/components/Example.jsx" :> "files/redux/ReduxExample.jsx")
                      @@ ("src/store.js" :> "files/redux/store.js"))
      ELSE <<>>

\* if (redux || router) { ... }
createFilesRedux(o) ==
    IF o.redux \/ o.router
      THEN ("src/entry.js" :> "files/redux/entry.js")
           @@ ("src/utils" :> "files/redux/utils")
           @@ (IF o.router
                 THEN ("src/components/App.jsx" :> "files/redux/Redux1stApp.jsx")
                      @@ ("src/components/Example.jsx" :> "files/redux/Redux1stExample.jsx")
                      @@ ("src/components/NotFound.jsx" :> "files/redux/NotFound.jsx")
                      @@ ("src/store.js" :> "files/redux/routerStore.js")
                      @@ ("src/routesMap.js" :> "files/redux/routesMap.js")
                 ELSE ("src/components/App.jsx" :> "files/redux/ReduxApp.jsx")
                      @@ ("src/components/Example.jsx" :> "files/redux/ReduxExample.jsx")
                      @@ ("src/store.js" :> "files/redux/store.js"))
      ELSE <<>>

createFiles(o) ==
    createFilesRedux(o) @@ createFilesApi(o) @@ createFilesServer(o)
    @@ createFilesAlways

CreateFiles ==
    /\ pc = "createFiles"
    /\ files' = createFiles(options)
    /\ envText' = dotEnv(options)
    /\ log' = Append(log, "createFiles")
    /\ pc' = "installDependencies"
    /\ UNCHANGED <<noArguments, argv, online, dirs, parsed, options, answers>>

(***************************************************************************)
(* STEP 5: installDependencies(options)                                    *)
(***************************************************************************)
\* run(`npm${forceOffline} i`)
installDependencies(o) ==
    IF o.offline THEN <<"offlineNotice", "npm --offline i">> ELSE <<"npm i">>

InstallDependencies ==
    /\ pc = "installDependencies"
    /\ log' = log \o installDependencies(options)
    /\ pc' = "done"
    /\ UNCHANGED <<noArguments, argv, online, dirs, parsed, options, answers, files, envText>>

Next ==
    \/ IsOnline
    \/ ParseArgs
    \/ ProcessUsersCommand
    \/ PromptAppName
    \/ PromptRedux
    \/ PromptRouter
    \/ PromptExpress
    \/ PromptMongo
    \/ CreateProjectDirectory
    \/ CreateSandbox
    \/ CreateFiles
    \/ InstallDependencies

Spec == Init /\ [][Next]_vars

(***************************************************************************)
(* Vocabulary of the properties.                                           *)
(***************************************************************************)
Logged(e) == \E i \in DOMAIN log : log[i] = e

\* The run has ended: the process exited, letsGo returned, or it threw.
Terminal == pc \in {"exit", "done", "crashed"}

\* parseArgs has run.
Parsed == parsed # NoOptions

\* The final ResolvedOptions exist: parseArgs and processUsersCommand have
\* both returned, or the wizard has asked its last question.
Resolved == options # NoOptions /\ pc # "processUsersCommand"

\* The raw text is an integer in [1,65535].
RawInRange(raw) ==
    /\ ToNumber(raw).isInteger
    /\ ToNumber(raw).n >= 1 /\ ToNumber(raw).n <= 65535

(***************************************************************************)
(* C1: a raw value given to --devServerPort or --apiPort that is not an    *)
(* integer in [1,65535] resolves to the flag's default (8080, 3000) and a  *)
(* warning is printed; one that is resolves to that integer and no warning *)
(* is printed.                                                             *)
(***************************************************************************)
C1_PortValidator ==
    Parsed =>
      /\ argv.devServerPort # Absent =>
           IF RawInRange(argv.devServerPort)
             THEN /\ parsed.devServerPort = ToNumber(argv.devServerPort).n
                  /\ ~Logged("portWarning:devServerPort")
             ELSE /\ parsed.devServerPort = 8080
                  /\ Logged("portWarning:devServerPort")
      /\ argv.apiPort # Absent =>
           IF RawInRange(argv.apiPort)
             THEN /\ parsed.apiPort = ToNumber(argv.apiPort).n
                  /\ ~Logged("portWarning:apiPort")
             ELSE /\ parsed.apiPort = 3000
                  /\ Logged("portWarning:apiPort")

\* An out-of-range dev port and a well-formed api port, both parsed.
C1_Witness ==
    /\ Parsed
    /\ argv.devServerPort = "65536" /\ parsed.devServerPort = 8080
    /\ Logged("portWarning:devServerPort")
    /\ argv.apiPort = "65535" /\ parsed.apiPort = 65535
    /\ ~Logged("portWarning:apiPort")

(***************************************************************************)
(* C2: when the parsed devServerPort equals the parsed apiPort and express *)
(* or mongo is asked for, the final devServerPort is apiPort + 1 and       *)
(* apiPort is unchanged; otherwise both ports are what was parsed (on the  *)
(* wizard path, the defaults).                                             *)
(***************************************************************************)
C2_PortCollision ==
    Resolved =>
      IF noArguments
        THEN options.devServerPort = 8080 /\ options.apiPort = 3000
        ELSE /\ options.apiPort = parsed.apiPort
             /\ IF (parsed.express \/ parsed.mongo)
                   /\ parsed.devServerPort = parsed.apiPort
                  THEN options.devServerPort = parsed.apiPort + 1
                  ELSE options.devServerPort = parsed.devServerPort

\* myapp --devServerPort=3000 --apiPort=3000 --express resolves to 3001.
C2_Witness ==
    /\ Resolved /\ ~noArguments
    /\ argv.devServerPort = "3000" /\ argv.apiPort = "3000" /\ argv.express
    /\ parsed.devServerPort = 3000
    /\ options.devServerPort = 3001 /\ options.apiPort = 3000

(***************************************************************************)
(* C3: in every final ResolvedOptions, of the arguments or of the wizard,  *)
(* devServerPort and apiPort are integers in [1,65535], also after the     *)
(* port-collision adjustment.                                              *)
(***************************************************************************)
C3_PortsInRange ==
    Resolved =>
      /\ options.devServerPort \in 1..65535
      /\ options.apiPort \in 1..65535

\* The name the run was given: on the command line, or to the wizard.
GivenName == IF noArguments THEN answers.appName ELSE argv.appName

\* The name has been read: parseArgs has run, or the wizard got its answer.
NameRead == IF noArguments THEN Logged("ask:appName") ELSE pc \notin {"letsGo", "parseArgs"}

\* Something was written under cwd by this run.
Wrote == Logged("mkdir") \/ Logged("copySandbox") \/ Logged("createFiles")

\* The target directory was there before the run started.
DirWasThere == NameRead /\ appDirOf(GivenName) \in dirs /\ ~Logged("mkdir")

(***************************************************************************)
(* C4: in every final ResolvedOptions that reaches directory creation,     *)
(* from the flags or from the wizard, router true implies redux true.      *)
(***************************************************************************)
C4_RouterImpliesRedux ==
    (Resolved /\ Logged("mkdir")) => (options.router => options.redux)

(***************************************************************************)
(* C5: in every final ResolvedOptions that reaches directory creation,     *)
(* from the flags or from the wizard, mongo true implies express true.     *)
(***************************************************************************)
C5_MongoImpliesExpress ==
    (Resolved /\ Logged("mkdir")) => (options.mongo => options.express)

(***************************************************************************)
(* C6: on the flag path and on the wizard path, whatever the other flags,  *)
(* when appName fails package-name validation nothing is created or        *)
(* written, and the run ends with the validation errors reported.          *)
(***************************************************************************)
C6_InvalidNameAborts ==
    (NameRead /\ GivenName # Undefined /\ ~validForNewPackages(GivenName)) =>
      /\ ~Wrote
      /\ (Terminal /\ ~argv.version /\ ~argv.help /\ ~DirWasThere) => Logged("badName")

(***************************************************************************)
(* C7: the directory check comes before any change to the file system;     *)
(* when the directory is already there and force is not set the run ends   *)
(* with nothing written; when force is set the collision does not end the  *)
(* run, which goes on to file assembly.                                    *)
(***************************************************************************)
C7_DirectoryCheck ==
    /\ \A i \in DOMAIN log :
         log[i] \in {"mkdir", "copySandbox", "createFiles"} =>
            \E j \in 1..(i - 1) : log[j] = "checkDirExists"
    /\ (DirWasThere /\ ~argv.force /\ Terminal) => ~Wrote
    /\ (/\ DirWasThere /\ argv.force /\ Terminal
        /\ ~argv.version /\ ~argv.help /\ ~argv.sandbox
        /\ validForNewPackages(GivenName)) => Logged("createFiles")

(***************************************************************************)
(* C8: with --version or --help, whatever the other arguments, the text is *)
(* printed and the process exits at once: nothing follows the print, and   *)
(* no directory check, name report, directory, file or installation is     *)
(* made.                                                                   *)
(***************************************************************************)
C8_VersionHelpExit ==
    (~noArguments /\ (argv.version \/ argv.help) /\ pc \notin {"letsGo", "parseArgs"}) =>
      /\ pc = "exit"
      /\ Len(log) >= 2
      /\ log[Len(log)] = "process.exit"
      /\ log[Len(log) - 1] = (IF argv.version THEN "showVersion" ELSE "showHelp")
      /\ \A i \in DOMAIN log :
           log[i] \notin {"checkDirExists", "badName", "creatingMsg", "mkdir",
                          "copySandbox", "createFiles", "npm i", "npm --offline i"}
      /\ files = <<>> /\ envText = <<>>
      /\ options = NoOptions

\* --help with a name whose directory is there and that is not a valid name.
C8_Witness ==
    /\ pc = "exit" /\ ~noArguments
    /\ argv.help /\ ~argv.version /\ argv.sandbox
    /\ argv.appName = "myApp" /\ appDirOf("myApp") \in dirs
    /\ Logged("showHelp")

(***************************************************************************)
(* C9: flags but no appName, not in sandbox mode: the run ends in the      *)
(* missing-name report, which is neither the invalid-name (badName) report *)
(* nor the directory-exists one, and the wizard is never started; the      *)
(* wizard starts only when there are no arguments at all.                  *)
(***************************************************************************)
C9_MissingName ==
    /\ Logged("ask:appName") => noArguments
    /\ (/\ ~noArguments /\ argv.appName = Undefined /\ ~argv.sandbox
        /\ ~argv.version /\ ~argv.help /\ Terminal) =>
         /\ Logged("noName")
         /\ ~Logged("badName")
         /\ ~Logged("ask:appName")

(***************************************************************************)
(* C10: when sandbox is true, whatever the other flags, none of the steps  *)
(* of createFiles runs and the installer is not called; what the run       *)
(* writes is the project directory with the sandbox template tree alone.   *)
(***************************************************************************)
C10_SandboxOnly ==
    (~noArguments /\ argv.sandbox) =>
      /\ ~Logged("createFiles")
      /\ ~Logged("npm i") /\ ~Logged("npm --offline i")
      /\ envText = <<>>
      /\ files \in {<<>>, sandboxFiles}
      /\ (files = sandboxFiles) <=> (pc = "done" /\ argv.appName # Undefined)
      /\ (files = sandboxFiles) =>
            /\ options.appDir \in dirs
            /\ log[Len(log)] = "copySandbox" /\ log[Len(log) - 1] = "mkdir"

\* A sandbox run with addon flags that has copied the sandbox tree.
C10_Witness ==
    /\ pc = "done" /\ ~noArguments
    /\ argv.sandbox /\ argv.redux /\ argv.mongo
    /\ files = sandboxFiles
    /\ Logged("mkdir")

(***************************************************************************)
(* C11: the resolved offline value is true exactly when the connectivity   *)
(* probe failed or --offline was given (on the wizard path: exactly when   *)
(* the probe failed), and the installer passes --offline to npm exactly    *)
(* when the resolved offline value is true.                                *)
(***************************************************************************)
C11_Offline ==
    /\ Resolved =>
         (options.offline <=> (~online \/ (~noArguments /\ argv.offline)))
    /\ (Logged("npm i") \/ Logged("npm --offline i")) =>
         /\ Logged("npm --offline i") <=> options.offline
         /\ Logged("npm i") <=> ~options.offline
    /\ (pc = "done" /\ Logged("createFiles")) =>
         (Logged("npm i") \/ Logged("npm --offline i"))

\* Online, --offline given, and npm was run with --offline.
C11_Witness ==
    /\ pc = "done" /\ ~noArguments
    /\ online /\ argv.offline
    /\ options.offline
    /\ Logged("npm --offline i") /\ ~Logged("npm i")

\* A line of .env with this key.
EnvHas(key) == \E i \in DOMAIN envText : envText[i][1] = key

\* A line of .env whose value is this text.
EnvCarries(value) == \E i \in DOMAIN envText : envText[i][2] = value

(***************************************************************************)
(* C12: the .env text createFiles writes always has the app name line and  *)
(* a line carrying the resolved port, with or without a server, and has    *)
(* the mongoURI, mongoSession and secret lines exactly when mongo is set.  *)
(***************************************************************************)
C12_DotEnv ==
    Logged("createFiles") =>
      /\ \E i \in DOMAIN envText : envText[i] = <<"appName", options.appName>>
      /\ \/ EnvCarries(ToString(options.apiPort))
         \/ EnvCarries(ToString(options.devServerPort))
      /\ EnvHas("mongoURI") <=> options.mongo
      /\ EnvHas("mongoSession") <=> options.mongo
      /\ EnvHas("secret") <=> options.mongo

\* The project directory has this path, written from this source.
FileIs(path, src) == path \in DOMAIN files /\ files[path] = src

(***************************************************************************)
(* C13: after file assembly of a non-sandbox project, server.js is there   *)
(* exactly when express or mongo is set and is the mongo variant exactly   *)
(* when mongo is set; the api folder is the full tree exactly when mongo   *)
(* is set, has home.js alone exactly when express is set and mongo is not, *)
(* and is not there when neither is set.                                   *)
(***************************************************************************)
C13_ServerAndApi ==
    Logged("createFiles") =>
      /\ ("server.js" \in DOMAIN files) <=> (options.express \/ options.mongo)
      /\ ("server.js" \in DOMAIN files) =>
            (FileIs("server.js", "files/server-mongo.js") <=> options.mongo)
      /\ ("server.js" \in DOMAIN files /\ ~options.mongo) =>
            FileIs("server.js", "files/server.js")
      /\ ("api" \in DOMAIN files) <=> options.mongo
      /\ ("api" \in DOMAIN files) => FileIs("api", "files/api")
      /\ ("api/home.js" \in DOMAIN files) <=> (options.express /\ ~options.mongo)
      /\ (~options.express /\ ~options.mongo) =>
            /\ "api" \notin DOMAIN files /\ "api/home.js" \notin DOMAIN files
            /\ "server.js" \notin DOMAIN files

\* --mongo without --express: the mongo server.js and the full api tree.
C13_Witness ==
    /\ Logged("createFiles")
    /\ options.mongo /\ ~options.express
    /\ FileIs("server.js", "files/server-mongo.js")
    /\ FileIs("api", "files/api")

(***************************************************************************)
(* C14: after file assembly the router and non-router variants exclude     *)
(* each other and router selects them: with redux and not router,          *)
(* store.js, App and Example are the non-router variants and neither       *)
(* routesMap.js nor NotFound is written; with router they are the router   *)
(* variants and routesMap.js and NotFound are written; with neither addon  *)
(* no redux entry, utils, store or variant component is written.           *)
(***************************************************************************)
ReduxPaths ==
    {"src/entry.js", "src/utils", "src/store.js", "src/components/App.jsx",
     "src/components/Example.jsx", "src/components/NotFound.jsx",
     "src/routesMap.js"}

C14_RouterVariants ==
    Logged("createFiles") =>
      /\ (options.redux /\ ~options.router) =>
            /\ FileIs("src/store.js", "files/redux/store.js")
            /\ FileIs("src/components/App.jsx", "files/redux/ReduxApp.jsx")
            /\ FileIs("src/components/Example.jsx", "files/redux/ReduxExample.jsx")
            /\ "src/routesMap.js" \notin DOMAIN files
            /\ "src/components/NotFound.jsx" \notin DOMAIN files
      /\ options.router =>
            /\ FileIs("src/store.js", "files/redux/routerStore.js")
            /\ FileIs("src/components/App.jsx", "files/redux/Redux1stApp.jsx")
            /\ FileIs("src/components/Example.jsx", "files/redux/Redux1stExample.jsx")
            /\ FileIs("src/routesMap.js", "files/redux/routesMap.js")
            /\ FileIs("src/components/NotFound.jsx", "files/redux/NotFound.jsx")
      /\ (~options.redux /\ ~options.router) =>
            /\ ReduxPaths \cap DOMAIN files = {}
            /\ FileIs("src", "files/src")

\* --router without --redux: the router variants are written.
C14_Witness ==
    /\ Logged("createFiles")
    /\ options.router /\ ~options.redux
    /\ FileIs("src/store.js", "files/redux/routerStore.js")
    /\ FileIs("src/routesMap.js", "files/redux/routesMap.js")

\* The place of a question in the wizard's list; 0 for any other event.
QuestionRank(e) ==
    CASE e = "ask:appName" -> 1
      [] e = "ask:redux"   -> 2
      [] e = "ask:router"  -> 3
      [] e = "ask:express" -> 4
      [] e = "ask:mongo"   -> 5
      [] OTHER             -> 0

\* How many questions have been asked.
Asked == Cardinality({i \in DOMAIN log : QuestionRank(log[i]) > 0})

(***************************************************************************)
(* C15: the wizard asks in the order app name, redux, router, express,     *)
(* mongo; the directory and name checks come after the app-name answer     *)
(* and before the redux question, and a rejected name or a directory that  *)
(* is there ends the run with no further question; the router question is  *)
(* asked only after a yes to redux, the mongo question only after a yes    *)
(* to express.                                                             *)
(***************************************************************************)
C15_WizardOrder ==
    /\ \A i, j \in DOMAIN log :
         (i < j /\ QuestionRank(log[i]) > 0 /\ QuestionRank(log[j]) > 0) =>
            QuestionRank(log[i]) < QuestionRank(log[j])
    /\ Asked > 0 => (noArguments /\ log[1] = "ask:appName")
    /\ Asked > 1 =>
         /\ Len(log) >= 3
         /\ log[2] = "checkDirExists" /\ log[3] = "ask:redux"
         /\ validForNewPackages(answers.appName)
         /\ appDirOf(answers.appName) \notin dirs \/ Logged("mkdir")
    /\ (noArguments /\ Asked > 0
        /\ (~validForNewPackages(answers.appName) \/ DirWasThere)) =>
         /\ pc = "exit"
         /\ Asked = 1
         /\ log[Len(log)] = "process.exit"
    /\ Logged("ask:router") => answers.redux
    /\ Logged("ask:mongo") => answers.express
    /\ Logged("ask:express") => Logged("ask:redux")

\* A wizard run that asked all five questions.
C15_Witness ==
    /\ noArguments /\ Asked = 5
    /\ answers.redux /\ answers.express
    /\ log[Len(log)] = "ask:mongo"

\* A wizard run that the name check ended after the first question.
C15_WitnessRejected ==
    /\ noArguments /\ pc = "exit" /\ Asked = 1
    /\ Logged("badName")

(***************************************************************************)
(* C16: --sandbox without an appName, the directory check passing:         *)
(* createSandbox reports the missing project name and returns; no          *)
(* directory is made, no file copied, the installer is not called, and     *)
(* the badName abort is not taken, parseArgs returning for sandbox before  *)
(* it looks at the name validation.                                        *)
(***************************************************************************)
C16_SandboxNoName ==
    (/\ ~noArguments /\ argv.sandbox /\ argv.appName = Undefined
     /\ ~argv.version /\ ~argv.help
     /\ appDirOf(Undefined) \notin dirs
     /\ pc \notin {"letsGo", "parseArgs"}) =>
       /\ ~Logged("badName") /\ ~Logged("process.exit")
       /\ pc \in {"processUsersCommand", "step3", "done"}
       /\ ~Wrote
       /\ ~Logged("npm i") /\ ~Logged("npm --offline i")
       /\ files = <<>> /\ envText = <<>>
       /\ pc = "done" =>
            /\ log[Len(log)] = "forgotProjectName"
            /\ \A i \in DOMAIN log :
                 log[i] \in {"checkDirExists", "forgotProjectName",
                             "portWarning:devServerPort", "portWarning:apiPort"}

\* The sandbox run without a name has ended with the report.
C16_Witness ==
    /\ pc = "done" /\ ~noArguments
    /\ argv.sandbox /\ argv.appName = Undefined
    /\ Logged("forgotProjectName")
    /\ dirs = {}
====
